---- MODULE Spec2Model ----
(***************************************************************************)
(* Telemetry distribution core of TrackSecure.                             *)
(*                                                                         *)
(* Server side: MQTT ingestion -> latest-value cache -> WebSocket          *)
(* broadcast (SensorWebSocketHandler) and the REST snapshot endpoints      *)
(* (SensorController).                                                     *)
(* Client side: the TrackingDashboard effect that drives connectWebSocket  *)
(* handles over a primary and a fallback URL.                              *)
(***************************************************************************)
EXTENDS Integers, Sequences, FiniteSets, TLC

\* ------------------------------------------------------------------ bounds
MaxSessions == 2        \* WebSocket sessions that ever connect
MaxEvents   == 2        \* MQTT messages that ever arrive
MaxConnecting == 1      \* connect callbacks running at the same time

MaxCycles   == 2        \* selection cycles (effect runs) of the dashboard
MaxAttempts == 2        \* consecutive failed connects of one handle
MaxRetries  == 11       \* the same, where one effect run is followed on its own

Sessions == 1..MaxSessions
Cycles   == 1..MaxCycles
Urls     == {"primaryUrl", "fallbackUrl"}
Handles  == Cycles \X Urls

None      == [absent |-> TRUE]   \* Java null where an object is expected
NoPayload == <<>>                \* no serialized payload yet
NoEndpoint == "none"             \* no REST request answered yet
Garbage   == 0                   \* a message body that does not decode

VARIABLES
  \* ---- server ----
  latestData,   \* MqttService.latestData: the AtomicReference's value (None = null)
  events,       \* the MQTT messages handled so far, in arrival order
  mqttPc,       \* position of the ingestion thread ("aborted": back in the
                \* adapter after a broadcast that ended in its outer catch)
  data,         \* broadcastSensorData's argument
  payload,      \* broadcastSensorData's serialized payload
  snap,         \* the array snapshot sessions.forEach iterates
  idx,          \* next position of the iteration in snap
  threw,        \* sessions whose sendMessage threw in the running broadcast
  sessions,     \* SensorWebSocketHandler.sessions, in insertion order
  isOpen,       \* WebSocketSession.isOpen() of each session
  estPc,        \* position of each session's lifecycle callbacks ("done":
                \* afterConnectionEstablished returned; "unprimed": it returned
                \* after its push of the snapshot failed)
  latest,       \* afterConnectionEstablished's local `latest`
  inbox,        \* the frames each session's client has received, in order
  response,     \* the last REST response produced by SensorController
  \* ---- client ----
  cycle,            \* number of effect runs so far; the last one is current
  cleanedUp,        \* per effect run: its cleanup has run
  activeHandle,     \* per effect run: the closure's activeHandle
  attemptedFallback,\* per effect run: the closure's attemptedFallback
  fallbackTimer,    \* per effect run: the 250 ms setTimeout is pending
  fallbackStarts,   \* per effect run: times createHandler(fallbackUrl) ran
  handles,          \* per connectWebSocket call: the closure's variables
  ctorThrows,       \* per URL: new WebSocket(url) throws (a property of the URL)
  limit,            \* the effect runs and consecutive failures that are followed
  wsConnected,      \* the component's wsConnected state
  trackingData,     \* the component's trackingData state (None = null)
  isLoading,        \* the component's isLoading state
  fetchPending      \* per effect run: its fetchTrackingData promise is pending

serverVars == <<latestData, events, mqttPc, data, payload, snap, idx, threw,
                sessions, isOpen, estPc, latest, inbox, response>>

clientVars == <<cycle, cleanedUp, activeHandle, attemptedFallback, fallbackTimer,
                fallbackStarts, handles, ctorThrows, limit, wsConnected,
                trackingData, isLoading, fetchPending>>

uiVars == <<trackingData, isLoading, fetchPending>>

vars == <<serverVars, clientVars>>

\* ------------------------------------------------------------ data model
\* SensorData: a DhtData and a GpsData, built together from one message.
SensorData(t) == [dhtData |-> [temperature |-> t], gpsData |-> [latitude |-> t]]

\* objectMapper.writeValueAsString: the wire JSON, a string of fields.
writeValueAsString(d) ==
  <<"dhtData", d.dhtData.temperature, "gpsData", d.gpsData.latitude>>

\* A frame on the wire; src tells the connect-time push ("prime") from a
\* broadcast ("broadcast").
Frame(p, src) == [payload |-> p, src |-> src]

InSeq(s, x) == \E i \in 1..Len(s) : s[i] = x

\* add of a list: appends whether or not the element is there.
SetAddAppend(q, s) == Append(q, s)

\* CopyOnWriteArraySet.add: addIfAbsent on the backing array.
SetAdd(q, s) == IF InSeq(q, s) THEN q ELSE Append(q, s)

\* CopyOnWriteArraySet.remove.
SetRemove(q, s) == SelectSeq(q, LAMBDA x : x # s)

\* ------------------------------------------------------------------ Init
ServerInit ==
  /\ latestData = None
  /\ events = <<>>
  /\ mqttPc = "idle"
  /\ data = None
  /\ payload = NoPayload
  /\ snap = <<>>
  /\ idx = 1
  /\ threw = {}
  /\ sessions = <<>>
  /\ isOpen = [s \in Sessions |-> FALSE]
  /\ estPc = [s \in Sessions |-> "new"]
  /\ latest = [s \in Sessions |-> None]
  /\ inbox = [s \in Sessions |-> <<>>]
  /\ response = [endpoint |-> NoEndpoint, status |-> 0, body |-> None]

mqttVars == <<latestData, events, mqttPc, data, payload, snap, idx, threw>>
sessVars == <<sessions, isOpen, estPc, latest>>

\* ------------------------------------------------ ingestion (MqttService)
\* A message that does not decode: logged and dropped.
messageArrivedUndecodable ==
  /\ mqttPc \in {"idle", "aborted"}
  /\ Len(events) < MaxEvents
  /\ events' = Append(events, Garbage)
  /\ UNCHANGED <<latestData, mqttPc, data, payload, snap, idx, threw>>
  /\ UNCHANGED <<sessVars, inbox, response>>
  /\ UNCHANGED clientVars

\* A message that decodes: the cache is replaced, then the broadcast is called.
\* The k-th message carries the measurement k, so that readings are told apart
\* by their arrival.
messageArrived ==
  /\ mqttPc \in {"idle", "aborted"}
  /\ Len(events) < MaxEvents
  /\ events' = Append(events, Len(events) + 1)
  /\ latestData' = SensorData(Len(events) + 1)
  /\ data' = SensorData(Len(events) + 1)
  /\ mqttPc' = "broadcast"
  /\ UNCHANGED <<payload, snap, idx, threw>>
  /\ UNCHANGED <<sessVars, inbox, response>>
  /\ UNCHANGED clientVars

\* ---------------------------------------------------- broadcastSensorData
\* writeValueAsString succeeds: the payload is built once and forEach takes
\* the array snapshot.
broadcastSerialize ==
  /\ mqttPc = "broadcast"
  /\ payload' = writeValueAsString(data)
  /\ snap' = sessions
  /\ idx' = 1
  /\ threw' = {}
  /\ mqttPc' = "forEach"
  /\ UNCHANGED <<latestData, events, data>>
  /\ UNCHANGED <<sessVars, inbox, response>>
  /\ UNCHANGED clientVars

\* The outer catch pushing an error notice to the open sessions.
broadcastSerializeThrowsNotifies ==
  /\ mqttPc = "broadcast"
  /\ mqttPc' = "aborted"
  /\ data' = None
  /\ inbox' = [s \in Sessions |->
                IF InSeq(sessions, s) /\ isOpen[s]
                  THEN Append(inbox[s], Frame(NoPayload, "broadcast"))
                  ELSE inbox[s]]
  /\ UNCHANGED <<latestData, events, payload, snap, idx, threw>>
  /\ UNCHANGED <<sessVars, response>>
  /\ UNCHANGED clientVars

\* writeValueAsString throws: the outer catch logs, nothing is sent, and
\* broadcastSensorData returns normally.
broadcastSerializeThrows ==
  /\ mqttPc = "broadcast"
  /\ mqttPc' = "aborted"
  /\ data' = None
  /\ UNCHANGED <<latestData, events, payload, snap, idx, threw>>
  /\ UNCHANGED <<sessVars, inbox, response>>
  /\ UNCHANGED clientVars

\* The lambda, with the exception of one session escaping the loop.
forEachBodyNoCatch ==
  /\ mqttPc = "forEach"
  /\ idx <= Len(snap)
  /\ LET s == snap[idx] IN
       \/ /\ isOpen[s]
          /\ inbox' = [inbox EXCEPT ![s] = Append(@, Frame(payload, "broadcast"))]
          /\ idx' = idx + 1
          /\ UNCHANGED threw
       \/ /\ isOpen[s]
          /\ threw' = threw \cup {s}
          /\ idx' = Len(snap) + 1
          /\ UNCHANGED inbox
       \/ /\ ~isOpen[s]
          /\ idx' = idx + 1
          /\ UNCHANGED <<inbox, threw>>
  /\ UNCHANGED <<latestData, events, mqttPc, data, payload, snap>>
  /\ UNCHANGED <<sessVars, response>>
  /\ UNCHANGED clientVars

\* The lambda, with the catch evicting the session whose send threw.
forEachBodyEvict ==
  /\ mqttPc = "forEach"
  /\ idx <= Len(snap)
  /\ LET s == snap[idx] IN
       \/ /\ isOpen[s]
          /\ inbox' = [inbox EXCEPT ![s] = Append(@, Frame(payload, "broadcast"))]
          /\ UNCHANGED <<threw, sessions>>
       \/ /\ isOpen[s]
          /\ threw' = threw \cup {s}
          /\ sessions' = SetRemove(sessions, s)
          /\ UNCHANGED inbox
       \/ /\ ~isOpen[s]
          /\ UNCHANGED <<inbox, threw, sessions>>
  /\ idx' = idx + 1
  /\ UNCHANGED <<latestData, events, mqttPc, data, payload, snap>>
  /\ UNCHANGED <<isOpen, estPc, latest, response>>
  /\ UNCHANGED clientVars

\* The lambda, with a send that is repeated after it succeeded.
forEachBodyResend ==
  /\ mqttPc = "forEach"
  /\ idx <= Len(snap)
  /\ LET s == snap[idx] IN
       \/ /\ isOpen[s]
          /\ inbox' = [inbox EXCEPT ![s] =
                         Append(Append(@, Frame(payload, "broadcast")),
                                Frame(payload, "broadcast"))]
          /\ UNCHANGED threw
       \/ /\ isOpen[s]
          /\ threw' = threw \cup {s}
          /\ UNCHANGED inbox
       \/ /\ ~isOpen[s]
          /\ UNCHANGED <<inbox, threw>>
  /\ idx' = idx + 1
  /\ UNCHANGED <<latestData, events, mqttPc, data, payload, snap>>
  /\ UNCHANGED <<sessVars, response>>
  /\ UNCHANGED clientVars

\* The lambda of sessions.forEach for the next session of the snapshot:
\* isOpen -> sendMessage, which delivers or throws (caught and logged);
\* not open -> skipped.
forEachBody ==
  /\ mqttPc = "forEach"
  /\ idx <= Len(snap)
  /\ LET s == snap[idx] IN
       \/ /\ isOpen[s]
          /\ inbox' = [inbox EXCEPT ![s] = Append(@, Frame(payload, "broadcast"))]
          /\ UNCHANGED threw
       \/ /\ isOpen[s]
          /\ threw' = threw \cup {s}
          /\ UNCHANGED inbox
       \/ /\ ~isOpen[s]
          /\ UNCHANGED <<inbox, threw>>
  /\ idx' = idx + 1
  /\ UNCHANGED <<latestData, events, mqttPc, data, payload, snap>>
  /\ UNCHANGED <<sessVars, response>>
  /\ UNCHANGED clientVars

\* forEach is over: broadcastSensorData returns to the ingestion thread.
broadcastReturn ==
  /\ mqttPc = "forEach"
  /\ idx > Len(snap)
  /\ mqttPc' = "idle"
  /\ data' = None
  /\ payload' = NoPayload
  /\ snap' = <<>>
  /\ idx' = 1
  /\ threw' = {}
  /\ UNCHANGED <<latestData, events>>
  /\ UNCHANGED <<sessVars, inbox, response>>
  /\ UNCHANGED clientVars

\* ------------------------------------------- afterConnectionEstablished
\* sessions.add(session): the session is registered before anything is sent.
\* Session objects are numbered in the order in which they connect; at most
\* MaxConnecting connect callbacks run at the same time.
afterConnectionEstablishedAdd(s) ==
  /\ estPc[s] = "new"
  /\ \A r \in Sessions : r < s => estPc[r] # "new"
  /\ Cardinality({r \in Sessions : estPc[r] \in {"added", "send"}}) < MaxConnecting
  /\ sessions' = SetAdd(sessions, s)
  /\ isOpen' = [isOpen EXCEPT ![s] = TRUE]
  /\ estPc' = [estPc EXCEPT ![s] = "added"]
  /\ UNCHANGED <<mqttVars, latest, inbox, response>>
  /\ UNCHANGED clientVars

\* mqttService.getLatestData().get(): null ends the callback with no push.
afterConnectionEstablishedGet(s) ==
  /\ estPc[s] = "added"
  /\ latest' = [latest EXCEPT ![s] = latestData]
  /\ estPc' = [estPc EXCEPT ![s] = IF latestData = None THEN "done" ELSE "send"]
  /\ UNCHANGED <<mqttVars, sessions, isOpen, inbox, response>>
  /\ UNCHANGED clientVars

\* ApplicationContextProvider.getBean throws: the outer catch, no push.
afterConnectionEstablishedGetThrows(s) ==
  /\ estPc[s] = "added"
  /\ estPc' = [estPc EXCEPT ![s] = "unprimed"]
  /\ UNCHANGED <<mqttVars, sessions, isOpen, latest, inbox, response>>
  /\ UNCHANGED clientVars

\* The connect path dropping a session whose snapshot push failed.
afterConnectionEstablishedSendOrDrop(s) ==
  /\ estPc[s] = "send"
  /\ \/ /\ isOpen[s]
        /\ inbox' = [inbox EXCEPT ![s] =
                       Append(@, Frame(writeValueAsString(latest[s]), "prime"))]
        /\ estPc' = [estPc EXCEPT ![s] = "done"]
        /\ UNCHANGED sessions
     \/ /\ UNCHANGED inbox
        /\ estPc' = [estPc EXCEPT ![s] = "unprimed"]
        /\ sessions' = SetRemove(sessions, s)
  /\ latest' = [latest EXCEPT ![s] = None]
  /\ UNCHANGED <<mqttVars, isOpen, response>>
  /\ UNCHANGED clientVars

\* writeValueAsString(latest) and session.sendMessage: delivered, or an
\* exception of either that the inner catch logs.
afterConnectionEstablishedSend(s) ==
  /\ estPc[s] = "send"
  /\ \/ /\ isOpen[s]
        /\ inbox' = [inbox EXCEPT ![s] =
                       Append(@, Frame(writeValueAsString(latest[s]), "prime"))]
        /\ estPc' = [estPc EXCEPT ![s] = "done"]
     \/ /\ UNCHANGED inbox
        /\ estPc' = [estPc EXCEPT ![s] = "unprimed"]
  /\ latest' = [latest EXCEPT ![s] = None]
  /\ UNCHANGED <<mqttVars, sessions, isOpen, response>>
  /\ UNCHANGED clientVars

\* The transport of a connected session goes away (peer or network); its
\* client, and what it had received, is gone with it.
transportClosed(s) ==
  /\ estPc[s] \in {"added", "send", "done", "unprimed"}
  /\ isOpen[s]
  /\ isOpen' = [isOpen EXCEPT ![s] = FALSE]
  /\ inbox' = [inbox EXCEPT ![s] = <<>>]
  /\ UNCHANGED <<mqttVars, sessions, estPc, latest, response>>
  /\ UNCHANGED clientVars

\* afterConnectionClosed: sessions.remove(session).
afterConnectionClosed(s) ==
  /\ estPc[s] \in {"done", "unprimed"}
  /\ ~isOpen[s]
  /\ sessions' = SetRemove(sessions, s)
  /\ estPc' = [estPc EXCEPT ![s] = "closed"]
  /\ UNCHANGED <<mqttVars, isOpen, latest, inbox, response>>
  /\ UNCHANGED clientVars

\* ------------------------------------------------------- SensorController
Ok(endpoint, body) == [endpoint |-> endpoint, status |-> 200, body |-> body]

\* An exception leaving a handler method: the framework answers 500.
ServerError(endpoint) == [endpoint |-> endpoint, status |-> 500, body |-> None]

\* The handler assembling its answer from parts read at different times: the
\* GPS part from the answer served last when that was a GPS answer.
getLatestSensorDataTorn ==
  /\ response' = Ok("latest",
                    IF latestData # None /\ response.endpoint = "gps" /\ response.status = 200
                      THEN [dhtData |-> latestData.dhtData, gpsData |-> response.body]
                      ELSE latestData)
  /\ UNCHANGED <<mqttVars, sessVars, inbox>>
  /\ UNCHANGED clientVars

\* GET /api/sensor/latest: ResponseEntity.ok(data), data possibly null.
getLatestSensorData ==
  /\ response' = Ok("latest", latestData)
  /\ UNCHANGED <<mqttVars, sessVars, inbox>>
  /\ UNCHANGED clientVars

\* GET /api/sensor/dht: data.getDhtData() on the value read.
getDhtData ==
  /\ response' = IF latestData = None THEN ServerError("dht")
                 ELSE Ok("dht", latestData.dhtData)
  /\ UNCHANGED <<mqttVars, sessVars, inbox>>
  /\ UNCHANGED clientVars

\* GET /api/sensor/gps: data.getGpsData() on the value read.
getGpsData ==
  /\ response' = IF latestData = None THEN ServerError("gps")
                 ELSE Ok("gps", latestData.gpsData)
  /\ UNCHANGED <<mqttVars, sessVars, inbox>>
  /\ UNCHANGED clientVars

\* ===================================================================
\* Client side
\* ===================================================================

\* Timer delays (ms). Only their order matters here: the fallback timer set by
\* onClose runs before the reconnect timer that the same close event sets.
FallbackDelay == 250
BaseDelay     == 1000
CapDelay      == 30000

\* Delays are doubles; they are held here in 1/TicksPerMs ms, which is exact
\* for 1000 * 1.5^n up to n = 8.  From n = 9 on the product is above the cap.
TicksPerMs == 256

\* Math.pow(1.5, n), in 1/TicksPerMs.
RECURSIVE MathPow15(_)
MathPow15(n) == IF n = 0 THEN TicksPerMs ELSE (MathPow15(n - 1) * 3) \div 2

MathMin(a, b) == IF a <= b THEN a ELSE b

\* The delay without the cap.
backoffDelayUncapped(n) == BaseDelay * MathPow15(n)

\* Math.min(30000, 1000 * Math.pow(1.5, n)), in 1/TicksPerMs ms.
backoffDelay(n) == MathMin(CapDelay * TicksPerMs, BaseDelay * MathPow15(n))

\* The variables of a connectWebSocket closure before the call. readyState is
\* that of the WebSocket the handle created last ("none": none created yet);
\* delay is the one scheduleReconnect computed last (0: none since the counter
\* was last 0).
NoHandle ==
  [exists |-> FALSE, ws |-> FALSE, readyState |-> "none", shouldReconnect |-> TRUE,
   reconnectAttempts |-> 0, reconnectTimer |-> FALSE, delay |-> 0]

\* scheduleReconnect giving up after the first retry.
scheduleReconnectOnce(h) ==
  IF h.reconnectAttempts >= 1 THEN h
  ELSE [h EXCEPT !.reconnectAttempts = @ + 1, !.reconnectTimer = TRUE,
                 !.delay = backoffDelay(h.reconnectAttempts + 1)]

\* scheduleReconnect: count the attempt, compute the delay from the new count
\* and arm the timer.
scheduleReconnect(h) ==
  [h EXCEPT !.reconnectAttempts = @ + 1, !.reconnectTimer = TRUE,
            !.delay = backoffDelay(h.reconnectAttempts + 1)]

\* create: new WebSocket(url) succeeds, or throws, which schedules a retry.
create(h, u) ==
  IF ctorThrows[u] THEN scheduleReconnect(h)
  ELSE [h EXCEPT !.ws = TRUE, !.readyState = "connecting"]

\* connectWebSocket: fresh closure variables, then create().
connectWebSocket(u) == create([NoHandle EXCEPT !.exists = TRUE], u)

\* ws.onopen, the wrapper's part.
wsOnOpen(h) ==
  [h EXCEPT !.readyState = "open", !.reconnectAttempts = 0, !.delay = 0]

\* ws.onclose without the shouldReconnect test.
wsOnCloseAlways(h) == scheduleReconnect([h EXCEPT !.readyState = "closed"])

\* ws.onclose, the wrapper's part after the onClose callback.
wsOnClose(h) ==
  LET c == [h EXCEPT !.readyState = "closed"] IN
    IF h.shouldReconnect THEN scheduleReconnect(c) ELSE c

\* close: no more reconnects, the timer cleared, the socket closed and dropped.
close(h) ==
  [h EXCEPT !.shouldReconnect = FALSE,
            !.reconnectTimer = FALSE,
            !.ws = FALSE,
            !.readyState = IF h.ws /\ @ \in {"connecting", "open"} THEN "closing" ELSE @]

\* `if (activeHandle) activeHandle.close()` on the handles of effect run c.
closeActive(hs, c) ==
  IF activeHandle[c] = "null" THEN hs
  ELSE [hs EXCEPT ![<<c, activeHandle[c]>>] = close(@)]

ClientInit ==
  /\ cycle = 0
  /\ cleanedUp = [c \in Cycles |-> FALSE]
  /\ activeHandle = [c \in Cycles |-> "null"]
  /\ attemptedFallback = [c \in Cycles |-> FALSE]
  /\ fallbackTimer = [c \in Cycles |-> FALSE]
  /\ fallbackStarts = [c \in Cycles |-> 0]
  /\ handles = [h \in Handles |-> NoHandle]
  /\ wsConnected = FALSE
  /\ trackingData = None
  /\ isLoading = FALSE
  /\ fetchPending = [c \in Cycles |-> FALSE]

\* The effect body for a newly selected package: the cleanup of the previous
\* run (if any), loadTrackingData() up to its await, then
\* activeHandle = createHandler(primaryUrl).
effectRun ==
  /\ cycle < limit.cycles
  /\ cycle > 0 => ~cleanedUp[cycle]
  /\ cycle' = cycle + 1
  /\ cleanedUp' = [c \in Cycles |-> cleanedUp[c] \/ c = cycle]
  /\ handles' = [(IF cycle > 0 THEN closeActive(handles, cycle) ELSE handles)
                   EXCEPT ![<<cycle + 1, "primaryUrl">>] = connectWebSocket("primaryUrl")]
  /\ activeHandle' = [activeHandle EXCEPT ![cycle + 1] = "primaryUrl"]
  /\ wsConnected' = IF cycle > 0 THEN FALSE ELSE wsConnected
  /\ isLoading' = TRUE
  /\ fetchPending' = [fetchPending EXCEPT ![cycle + 1] = TRUE]
  /\ UNCHANGED trackingData
  /\ UNCHANGED <<attemptedFallback, fallbackTimer, fallbackStarts, ctorThrows, limit>>
  /\ UNCHANGED serverVars

\* The effect cleanup alone (the component unmounts).
effectCleanup ==
  /\ cycle > 0
  /\ ~cleanedUp[cycle]
  /\ cleanedUp' = [cleanedUp EXCEPT ![cycle] = TRUE]
  /\ handles' = closeActive(handles, cycle)
  /\ wsConnected' = FALSE
  /\ UNCHANGED <<cycle, activeHandle, attemptedFallback, fallbackTimer, fallbackStarts,
                 ctorThrows, limit>>
  /\ UNCHANGED uiVars
  /\ UNCHANGED serverVars

\* The socket of a handle opens: ws.onopen, then the onOpen callback.
socketOpens(c, u) ==
  /\ handles[<<c, u>>].readyState = "connecting"
  /\ handles' = [handles EXCEPT ![<<c, u>>] = wsOnOpen(@)]
  /\ wsConnected' = TRUE
  /\ UNCHANGED <<cycle, cleanedUp, activeHandle, attemptedFallback, fallbackTimer,
                 fallbackStarts, ctorThrows, limit>>
  /\ UNCHANGED uiVars
  /\ UNCHANGED serverVars

\* The onClose callback substituting the fallback on every close.
tryFallbackAlways(c, u) == TRUE

\* The onClose callback's test for the fallback substitution.
tryFallback(c, u) == ~attemptedFallback[c] /\ u = "primaryUrl"

\* The close event of a handle's socket (refused, dropped, or closed by
\* close()): ws.onclose runs the onClose callback, then reconnects if it may.
socketCloses(c, u) ==
  /\ handles[<<c, u>>].readyState \in {"connecting", "open", "closing"}
  /\ handles[<<c, u>>].shouldReconnect =>
       handles[<<c, u>>].reconnectAttempts < limit.attempts
  /\ wsConnected' = FALSE
  /\ IF tryFallback(c, u)
       THEN /\ attemptedFallback' = [attemptedFallback EXCEPT ![c] = TRUE]
            /\ fallbackTimer' = [fallbackTimer EXCEPT ![c] = TRUE]
       ELSE UNCHANGED <<attemptedFallback, fallbackTimer>>
  /\ handles' = [handles EXCEPT ![<<c, u>>] = wsOnClose(@)]
  /\ UNCHANGED <<cycle, cleanedUp, activeHandle, fallbackStarts, ctorThrows, limit>>
  /\ UNCHANGED uiVars
  /\ UNCHANGED serverVars

\* The reconnect timer of a handle fires: create(). A primary handle's timer
\* (at least BaseDelay * 1.5) is behind the fallback timer (FallbackDelay) set
\* by the same close event.
reconnectTimerFires(c, u) ==
  /\ handles[<<c, u>>].reconnectTimer
  /\ ~(u = "primaryUrl" /\ fallbackTimer[c] /\ FallbackDelay < BaseDelay)
  /\ ctorThrows[u] => handles[<<c, u>>].reconnectAttempts < limit.attempts
  /\ handles' = [handles EXCEPT ![<<c, u>>] =
                   create([@ EXCEPT !.reconnectTimer = FALSE], u)]
  /\ UNCHANGED <<cycle, cleanedUp, activeHandle, attemptedFallback, fallbackTimer,
                 fallbackStarts, ctorThrows, limit, wsConnected>>
  /\ UNCHANGED uiVars
  /\ UNCHANGED serverVars

\* The fallback timer's callback without the close of the stale handle.
fallbackTimerFiresNoClose(c) ==
  /\ fallbackTimer[c]
  /\ fallbackTimer' = [fallbackTimer EXCEPT ![c] = FALSE]
  /\ handles' = [handles EXCEPT ![<<c, "fallbackUrl">>] = connectWebSocket("fallbackUrl")]
  /\ activeHandle' = [activeHandle EXCEPT ![c] = "fallbackUrl"]
  /\ fallbackStarts' = [fallbackStarts EXCEPT ![c] = @ + 1]
  /\ UNCHANGED <<cycle, cleanedUp, attemptedFallback, ctorThrows, limit, wsConnected>>
  /\ UNCHANGED uiVars
  /\ UNCHANGED serverVars

\* The fallback timer fires: close the stale handle, then
\* activeHandle = createHandler(fallbackUrl).
fallbackTimerFires(c) ==
  /\ fallbackTimer[c]
  /\ fallbackTimer' = [fallbackTimer EXCEPT ![c] = FALSE]
  /\ handles' = [closeActive(handles, c)
                   EXCEPT ![<<c, "fallbackUrl">>] = connectWebSocket("fallbackUrl")]
  /\ activeHandle' = [activeHandle EXCEPT ![c] = "fallbackUrl"]
  /\ fallbackStarts' = [fallbackStarts EXCEPT ![c] = @ + 1]
  /\ UNCHANGED <<cycle, cleanedUp, attemptedFallback, ctorThrows, limit, wsConnected>>
  /\ UNCHANGED uiVars
  /\ UNCHANGED serverVars

\* ------------------------------------------------------ frames and snapshot
\* selectedPackageId as the closures of effect run c hold it: the package
\* whose selection started the run.
PackageOf(c) == c

\* A frame or a reading that carries no packageId.
NoPackageId == 0

\* The dhtData of a reading.
SomeDht == [temperature |-> 21]

\* ev.data of a message event, as text: empty, not JSON, the JSON null, or a
\* JSON object with or without packageId and dhtData.
WireFrames ==
  {[kind |-> k, packageId |-> NoPackageId, dhtData |-> None] :
     k \in {"empty", "text", "null"}}
  \cup {[kind |-> "object", packageId |-> p, dhtData |-> d] :
          p \in {NoPackageId} \cup Cycles, d \in {None, SomeDht}}

\* JSON.parse(text): throws on text that is not JSON, the empty text included.
JsonParse(f) ==
  [threw |-> f.kind \in {"empty", "text"},
   msg |-> IF f.kind = "object" THEN f ELSE None]

\* The onMessage callback of createHandler in effect run c lets msg through to
\* setTrackingData.
accepts(c, msg) ==
  /\ msg # None
  /\ ~(msg.packageId # NoPackageId /\ msg.packageId # PackageOf(c))

\* `transformed`: 0 for a missing number, the run's package for a missing id.
transformed(c, msg) ==
  [temperature |-> IF msg.dhtData = None THEN 0 ELSE msg.dhtData.temperature,
   packageId |-> IF msg.packageId # NoPackageId THEN msg.packageId ELSE PackageOf(c)]

\* ws.onmessage of an open socket: parse, then the onMessage callback.
wsOnMessage(c, u, f) ==
  /\ handles[<<c, u>>].readyState = "open"
  /\ IF ~JsonParse(f).threw /\ accepts(c, JsonParse(f).msg)
       THEN /\ trackingData' = transformed(c, JsonParse(f).msg)
            /\ isLoading' = FALSE
       ELSE UNCHANGED <<trackingData, isLoading>>
  /\ UNCHANGED <<cycle, cleanedUp, activeHandle, attemptedFallback, fallbackTimer,
                 fallbackStarts, handles, ctorThrows, limit, wsConnected, fetchPending>>
  /\ UNCHANGED serverVars

\* fetchTrackingData of effect run c settles: loadTrackingData goes on after
\* its await, with the reading (ok) or in its catch, then in its finally.
loadTrackingDataSettles(c, ok) ==
  /\ fetchPending[c]
  /\ fetchPending' = [fetchPending EXCEPT ![c] = FALSE]
  /\ trackingData' = IF ok THEN [temperature |-> SomeDht.temperature,
                                 packageId |-> PackageOf(c)]
                     ELSE trackingData
  /\ isLoading' = FALSE
  /\ UNCHANGED <<cycle, cleanedUp, activeHandle, attemptedFallback, fallbackTimer,
                 fallbackStarts, handles, ctorThrows, limit, wsConnected>>
  /\ UNCHANGED serverVars

UiNext ==
  \/ \E c \in Cycles, u \in Urls, f \in WireFrames : wsOnMessage(c, u, f)
  \/ \E c \in Cycles, ok \in BOOLEAN : loadTrackingDataSettles(c, ok)

TimerNext ==
  \/ \E c \in Cycles, u \in Urls : reconnectTimerFires(c, u)
  \/ \E c \in Cycles : fallbackTimerFires(c)

ClientNext ==
  \/ effectRun
  \/ effectCleanup
  \/ \E c \in Cycles, u \in Urls : socketOpens(c, u)
  \/ \E c \in Cycles, u \in Urls : socketCloses(c, u)
  \/ TimerNext

\* The ingestion thread: MqttService's callback and the broadcast it calls.
IngestNext ==
  \/ messageArrived
  \/ broadcastSerialize
  \/ broadcastSerializeThrows
  \/ forEachBody
  \/ broadcastReturn

\* The container's threads running the WebSocket lifecycle callbacks.
SessionNext ==
  \/ \E s \in Sessions : afterConnectionEstablishedAdd(s)
  \/ \E s \in Sessions : afterConnectionEstablishedGet(s)
  \/ \E s \in Sessions : afterConnectionEstablishedGetThrows(s)
  \/ \E s \in Sessions : afterConnectionEstablishedSend(s)
  \/ \E s \in Sessions : transportClosed(s)
  \/ \E s \in Sessions : afterConnectionClosed(s)

\* The container's threads running the REST handlers.
RestNext ==
  \/ getLatestSensorData
  \/ getDhtData
  \/ getGpsData

\* The server on its own: no dashboard is loaded, no constructor is called.
Init ==
  /\ ServerInit
  /\ ClientInit
  /\ ctorThrows = [u \in Urls |-> FALSE]
  /\ limit = [cycles |-> MaxCycles, attempts |-> MaxAttempts]

\* The dashboard in a page: each of the two URLs is one the WebSocket
\* constructor accepts, or one it rejects with an exception.
InitClient ==
  /\ ServerInit
  /\ ClientInit
  /\ ctorThrows \in [Urls -> BOOLEAN]
  /\ limit = [cycles |-> MaxCycles, attempts |-> MaxAttempts]

\* The dashboard with one package selected, its handles followed through
\* MaxRetries consecutive failures.
InitBackoff ==
  /\ ServerInit
  /\ ClientInit
  /\ ctorThrows \in [Urls -> BOOLEAN]
  /\ limit = [cycles |-> 1, attempts |-> MaxRetries]

\* Push channel: ingestion and broadcast against the session callbacks.  A
\* message that does not decode reaches neither the cache nor the broadcast
\* and is left to SpecSnapshot.
SpecServer == Init /\ [][IngestNext \/ SessionNext]_vars

\* The connect path up to its read of the cache.
ConnectReadNext ==
  \/ \E s \in Sessions : afterConnectionEstablishedAdd(s)
  \/ \E s \in Sessions : afterConnectionEstablishedGet(s)

\* Snapshot service: ingestion against the readers of the cache, which are
\* the REST handlers and the connect path of a session up to its read.
SpecSnapshot ==
  Init /\ [][messageArrivedUndecodable \/ IngestNext \/ RestNext \/ ConnectReadNext]_vars

\* Dashboard client: one browser event loop, callbacks run to completion.
SpecClient == InitClient /\ [][ClientNext]_vars

\* The dashboard with what it displays: connections, frames and the snapshot.
SpecDashboard == InitClient /\ [][ClientNext \/ UiNext]_vars

\* One effect run and the retries of its handles.
SpecBackoff == InitBackoff /\ [][ClientNext]_vars

\* The browser runs every timer that stays armed.
SpecClientFair ==
  /\ SpecClient
  /\ \A c \in Cycles : WF_vars(fallbackTimerFires(c))
  /\ \A c \in Cycles, u \in Urls : WF_vars(reconnectTimerFires(c, u))

\* ===================================================================
\* Properties of the server side
\* ===================================================================

BroadcastOver == mqttPc = "forEach" /\ idx > Len(snap)

\* C1. Broadcast isolation: when a broadcast has gone through its snapshot,
\* every session of the snapshot that is open and whose own send did not throw
\* holds the frame of this broadcast, the serialized reading, whatever the
\* sends to the other sessions did.
BroadcastIsolation ==
  BroadcastOver =>
    \A i \in 1..Len(snap) :
      (isOpen[snap[i]] /\ snap[i] \notin threw) =>
        InSeq(inbox[snap[i]], Frame(writeValueAsString(data), "broadcast"))

\* A send threw for a session, and a session visited after it got the frame.
BroadcastIsolationWitness ==
  /\ BroadcastOver
  /\ \E i, j \in 1..Len(snap) :
       /\ i < j
       /\ snap[i] \in threw
       /\ isOpen[snap[j]]
       /\ snap[j] \notin threw
       /\ InSeq(inbox[snap[j]], Frame(writeValueAsString(data), "broadcast"))

\* C2. New-connection priming: the frame the connect path pushes carries the
\* reading R it read from the cache and is the first frame the session gets;
\* a connect path that reads an empty cache ends without pushing.
PrimingIsFirstFrame ==
  [][\A s \in Sessions :
       /\ (estPc[s] = "send" /\ estPc'[s] = "done") =>
            inbox'[s][1].payload = writeValueAsString(latest[s])
       /\ (estPc[s] = "added" /\ estPc'[s] # "added" /\ latestData = None) =>
            (estPc'[s] \in {"done", "unprimed"} /\ inbox'[s] = inbox[s])]_vars

\* The reading of the last message that decoded, in arrival order.
LastDecoded(ev) ==
  LET good == {i \in 1..Len(ev) : ev[i] # Garbage} IN
    IF good = {} THEN None
    ELSE SensorData(ev[CHOOSE i \in good : \A j \in good : j <= i])

\* C9. Last-write-wins: the cache holds the reading of the last message that
\* decoded (an undecodable message leaves it alone), and each reader, the REST
\* snapshot and the connect path of a session, gets that whole reading at the
\* moment it reads.
LastWriteWins ==
  /\ [](latestData = LastDecoded(events))
  /\ [][/\ (response' # response /\ response'.endpoint = "latest") =>
             response'.body = LastDecoded(events')
        /\ \A s \in Sessions :
             (estPc[s] = "added" /\ estPc'[s] = "send") =>
               latest'[s] = LastDecoded(events')]_vars

\* A reading was cached, a later message did not decode, and both kinds of
\* reader have read the cached reading since.
LastWriteWinsWitness ==
  /\ Len(events) >= 2
  /\ events[Len(events)] = Garbage
  /\ latestData # None
  /\ response = Ok("latest", latestData)
  /\ \E s \in Sessions : estPc[s] = "send" /\ latest[s] = latestData

\* C10. Snapshot before any data: as long as the cache is empty, every answer
\* of a snapshot endpoint is the defined empty one, never an error.
SnapshotBeforeDataIsEmpty ==
  (latestData = None /\ response.endpoint # NoEndpoint) =>
    response = Ok(response.endpoint, None)

\* add(s) has been called for the session and remove(s) has not.
Registered(s) == estPc[s] \in {"added", "send", "done", "unprimed"}

SessionStaysRegistered ==
  /\ [](\A s \in Sessions :
          (Registered(s) /\ (s \in threw \/ ~isOpen[s])) => InSeq(sessions, s))
  /\ [][/\ \A s \in Sessions :
             (InSeq(sessions, s) /\ ~InSeq(sessions', s)) =>
               (estPc[s] \in {"done", "unprimed"} /\ estPc'[s] = "closed")
        /\ (mqttPc' # mqttPc \/ idx' # idx) => sessions' = sessions
        /\ \A s \in Sessions :
             (estPc[s] \in {"added", "send"} /\ estPc'[s] # estPc[s]) =>
               sessions' = sessions]_vars

\* The broadcast is over; the send to one registered session threw, another
\* registered session was skipped because it is not open.
SessionStaysRegisteredWitness ==
  /\ BroadcastOver
  /\ \E s, r \in Sessions :
       /\ s \in threw /\ isOpen[s] /\ InSeq(sessions, s)
       /\ ~isOpen[r] /\ InSeq(snap, r) /\ InSeq(sessions, r)

\* C13. Serialization failure aborts the broadcast: the step in which
\* serialization fails delivers nothing and leaves the registry alone, no
\* session holds a broadcast frame of the reading whose broadcast was aborted,
\* and the call returns to the adapter; the payload is built once per
\* broadcast, from the reading, before the first send, and every frame of the
\* broadcast carries it.
SerializationFailureAborts ==
  /\ [](mqttPc = "aborted" =>
          \A s \in Sessions :
            ~InSeq(inbox[s], Frame(writeValueAsString(latestData), "broadcast")))
  /\ [][/\ (mqttPc = "broadcast" /\ mqttPc' = "aborted") =>
             (inbox' = inbox /\ sessions' = sessions)
        /\ payload' # payload =>
             \/ mqttPc = "broadcast" /\ payload' = writeValueAsString(data)
             \/ mqttPc = "forEach" /\ mqttPc' = "idle"
        /\ \A s \in Sessions :
             (/\ Len(inbox'[s]) > Len(inbox[s])
              /\ inbox'[s][Len(inbox'[s])].src = "broadcast") =>
               /\ mqttPc = "forEach"
               /\ payload = writeValueAsString(data)
               /\ inbox'[s] = Append(inbox[s], Frame(payload, "broadcast"))]_vars

\* A broadcast was aborted while a session was registered, open and past its
\* connect callback.
SerializationFailureAbortsWitness ==
  /\ mqttPc = "aborted"
  /\ \E s \in Sessions :
       InSeq(sessions, s) /\ isOpen[s] /\ estPc[s] \in {"done", "unprimed"}

\* C18. Priming failure does not prevent registration: a session whose
\* connect-time push failed is past its connect callback and in the registry,
\* is in the snapshot of every broadcast that starts while it is, and holds
\* the frame of a broadcast that iterated over it while it was open, unless
\* that send threw.
PrimingFailureKeepsRegistration ==
  /\ [](\A s \in Sessions : estPc[s] = "unprimed" => InSeq(sessions, s))
  /\ [][(mqttPc = "broadcast" /\ mqttPc' = "forEach") =>
          \A s \in Sessions : estPc[s] = "unprimed" => InSeq(snap', s)]_vars
  /\ [](BroadcastOver =>
          \A s \in Sessions :
            (estPc[s] = "unprimed" /\ InSeq(snap, s) /\ isOpen[s] /\ s \notin threw)
              => InSeq(inbox[s], Frame(payload, "broadcast")))

\* A session whose connect-time push failed holds the frame of the broadcast
\* that has just gone through its snapshot.
PrimingFailureKeepsRegistrationWitness ==
  /\ BroadcastOver
  /\ \E s \in Sessions :
       /\ estPc[s] = "unprimed"
       /\ inbox[s] = <<Frame(payload, "broadcast")>>

\* Number of times the frame f occurs in the inbox q.
Count(q, f) == Cardinality({i \in 1..Len(q) : q[i] = f})

\* The broadcast frame of the k-th message.
BroadcastFrame(k) == Frame(writeValueAsString(SensorData(k)), "broadcast")

\* C19. Exactly-once delivery per broadcast: no session holds the frame of a
\* broadcast twice, and when a broadcast has gone through its snapshot every
\* session that was registered when it started, is still open and whose send
\* did not throw holds its frame once, whatever was added or removed meanwhile.
ExactlyOncePerBroadcast ==
  /\ \A s \in Sessions : \A k \in 1..MaxEvents :
       Count(inbox[s], BroadcastFrame(k)) <= 1
  /\ BroadcastOver =>
       \A s \in Sessions :
         (InSeq(snap, s) /\ isOpen[s] /\ s \notin threw) =>
           Count(inbox[s], Frame(payload, "broadcast")) = 1

\* The second broadcast is over: a session holds the frames of both
\* broadcasts, once each, and another session, registered during the
\* iteration, is not in the snapshot.
ExactlyOncePerBroadcastWitness ==
  /\ BroadcastOver
  /\ \E s, r \in Sessions :
       /\ inbox[s] = <<BroadcastFrame(1), BroadcastFrame(2)>>
       /\ InSeq(sessions, r)
       /\ ~InSeq(snap, r)

\* The message a frame's reading came from.
ReadingOf(f) == f.payload[2]

\* C20. Per-session delivery follows ingestion order: in what a session has
\* received, no frame is followed by the frame of an earlier reading.
DeliveryFollowsIngestionOrder ==
  \A s \in Sessions : \A i, j \in 1..Len(inbox[s]) :
    i < j => ReadingOf(inbox[s][i]) <= ReadingOf(inbox[s][j])

\* ===================================================================
\* Properties of the client side
\* ===================================================================

Primary(c)  == <<c, "primaryUrl">>
Fallback(c) == <<c, "fallbackUrl">>

\* A handle is live: it owns a connecting or open socket, or a pending reconnect.
Live(h) ==
  handles[h].readyState \in {"connecting", "open"} \/ handles[h].reconnectTimer

\* close() has been called on the handle.
Closed(h) == handles[h].exists /\ ~handles[h].shouldReconnect

\* C3. Single active handle: at most one handle is live, and of two handles
\* that exist at least one has been closed.
SingleActiveHandle ==
  \A h1, h2 \in Handles :
    h1 # h2 =>
      /\ ~(Live(h1) /\ Live(h2))
      /\ (handles[h1].exists /\ handles[h2].exists) => (Closed(h1) \/ Closed(h2))

\* C4. Explicit close of a handle: a closed handle owns no connecting or open
\* socket and no pending reconnect, in every state after the close, and a
\* further close() leaves its variables as they are.
CloseIsFinal ==
  \A h \in Handles :
    Closed(h) => (~Live(h) /\ close(handles[h]) = handles[h])

\* One handle was closed while its reconnect timer was pending (it never had
\* a socket), another while its socket was up, whose close event came later.
CloseIsFinalWitness ==
  \E h1, h2 \in Handles :
    /\ Closed(h1)
    /\ handles[h1].readyState = "none"
    /\ handles[h1].reconnectAttempts >= 1
    /\ Closed(h2)
    /\ handles[h2].readyState = "closed"
    /\ handles[h2].reconnectAttempts = 0

\* C5. Cancellation is race-free: once the cleanup of an effect run has run,
\* no handle of that run owns a socket or a pending reconnect, then or later.
CancelledRunStaysQuiet ==
  \A c \in Cycles : cleanedUp[c] => \A u \in Urls : ~Live(<<c, u>>)

\* C6. Fallback-once: in an effect run the fallback substitution starts a
\* connection at most once; once the primary socket has closed, opened before
\* or not, the substitution is pending or has run; and a pending substitution
\* does run.
FallbackOnce ==
  /\ [](\A c \in Cycles :
          /\ fallbackStarts[c] <= 1
          /\ handles[Primary(c)].readyState = "closed" =>
               (fallbackTimer[c] \/ fallbackStarts[c] = 1))
  /\ \A c \in Cycles : fallbackTimer[c] ~> (fallbackStarts[c] = 1)

\* The substitution ran once and the fallback socket has closed twice since.
FallbackOnceWitness ==
  \E c \in Cycles :
    /\ fallbackStarts[c] = 1
    /\ handles[Fallback(c)].reconnectAttempts >= 2

\* C7. No flip back to primary: once the fallback is engaged in an effect run,
\* the primary handle of that run makes no further attempt: it creates no
\* socket and schedules no reconnect.
NoFlipBackToPrimary ==
  [][\A c \in Cycles :
       attemptedFallback[c] =>
         /\ handles'[Primary(c)].readyState # "connecting"
         /\ handles'[Primary(c)].reconnectAttempts
              <= handles[Primary(c)].reconnectAttempts]_vars

\* The fallback handle of a run still current is retrying the fallback URL.
NoFlipBackToPrimaryWitness ==
  \E c \in Cycles :
    /\ ~cleanedUp[c]
    /\ handles[Fallback(c)].readyState = "connecting"
    /\ handles[Fallback(c)].reconnectAttempts >= 1
    /\ Closed(Primary(c))

\* C8. No terminal failure state: an effect run that has not been cleaned up
\* always owns a live socket or a pending retry, and every pending retry is
\* followed by a connection attempt (a socket, or a failed constructor that
\* schedules the next retry) unless the handle is closed first.  Attempts
\* beyond MaxAttempts are outside the explored behaviours.
NoTerminalFailure ==
  /\ [](\A c \in Cycles :
          (c <= cycle /\ ~cleanedUp[c]) =>
            (fallbackTimer[c] \/ \E u \in Urls : Live(<<c, u>>)))
  /\ \A h \in Handles : \A n \in 0..MaxAttempts :
       (/\ handles[h].reconnectTimer
        /\ handles[h].reconnectAttempts = n
        /\ ctorThrows[h[2]] => n < MaxAttempts)
         ~> \/ handles[h].readyState \in {"connecting", "open"}
            \/ handles[h].reconnectAttempts > n
            \/ ~handles[h].shouldReconnect
  /\ \A c \in Cycles : fallbackTimer[c] ~> handles[Fallback(c)].exists

\* A handle of a run still current has failed twice in a row and waits for
\* its third attempt.
NoTerminalFailureWitness ==
  \E h \in Handles :
    /\ ~cleanedUp[h[1]]
    /\ handles[h].reconnectAttempts >= 2
    /\ handles[h].reconnectTimer

\* C14. Backoff monotonicity and cap: the delay computed for the attempt count
\* n >= 1 is min(30000, 1000 * (3/2)^n) ms, stated on the exact fractions; it
\* never exceeds 30000 ms; and from one scheduled reconnect to the next of a
\* run of failures it does not decrease.
BackoffMonotoneAndCapped ==
  /\ [](\A h \in Handles :
          LET n == handles[h].reconnectAttempts
              d == handles[h].delay
          IN /\ d <= CapDelay * TicksPerMs
             /\ n >= 1 =>
                  IF BaseDelay * 3^n >= CapDelay * 2^n
                    THEN d = CapDelay * TicksPerMs
                    ELSE d * 2^n = BaseDelay * 3^n * TicksPerMs)
  /\ [][\A h \in Handles :
          handles'[h].reconnectAttempts = handles[h].reconnectAttempts + 1 =>
            handles'[h].delay >= handles[h].delay]_vars

\* A handle waits for its next attempt after ten failures in a row, the delay
\* at the cap.
BackoffMonotoneAndCappedWitness ==
  \E h \in Handles :
    /\ handles[h].reconnectTimer
    /\ handles[h].reconnectAttempts = 10
    /\ handles[h].delay = CapDelay * TicksPerMs

\* C16. Delay is computed before the counter is incremented: a step that
\* schedules a reconnect, taking the counter from n to n + 1, sets the timer to
\* the delay of n; after an open (n = 0) that is 1000 ms.
DelayBeforeIncrement ==
  [][\A h \in Handles :
       handles'[h].reconnectAttempts = handles[h].reconnectAttempts + 1 =>
         handles'[h].delay = backoffDelay(handles[h].reconnectAttempts)]_vars

\* The attempt counter of an effect run: that of its active handle.
attemptCount(hs, active, c) ==
  IF active[c] = "null" THEN 0 ELSE hs[<<c, active[c]>>].reconnectAttempts

\* C17. attemptCount resets only on a successful open: the counter of an
\* effect run goes down only in a step in which a socket of the run opens, and
\* then to 0; it goes up by 1 at a time.
AttemptCountResetsOnlyOnOpen ==
  [][\A c \in Cycles :
       LET a == attemptCount(handles, activeHandle, c)
           b == attemptCount(handles', activeHandle', c)
       IN /\ b < a =>
               /\ b = 0
               /\ \E u \in Urls :
                    /\ handles[<<c, u>>].readyState = "connecting"
                    /\ handles'[<<c, u>>].readyState = "open"
          /\ b > a => b = a + 1]_vars

\* A frame the client is to discard: empty, not JSON, or carrying the
\* packageId of a package other than the selected one.
Discarded(f) ==
  \/ f.kind \in {"empty", "text", "null"}
  \/ f.packageId # NoPackageId /\ f.packageId # PackageOf(cycle)

\* C15. Discarded frames leave the UI unchanged: a step in which a socket
\* delivers a frame that is empty, unparseable or for another package than the
\* selected one leaves the displayed reading and the loading flag as they are.
DiscardedFramesLeaveUi ==
  [][\A c \in Cycles, u \in Urls, f \in WireFrames :
       (Discarded(f) /\ wsOnMessage(c, u, f)) =>
         (trackingData' = trackingData /\ isLoading' = isLoading)]_vars

\* C21. Displayed reading belongs to the current selection: whenever a reading
\* is displayed while a package is selected, it is a reading of that package.
DisplayedReadingIsOfSelection ==
  (cycle >= 1 /\ trackingData # None) =>
    trackingData.packageId = PackageOf(cycle)

\* C22. Connectivity indicator is truthful: while the current effect run has
\* not been cleaned up, wsConnected is true only if the socket of its active
\* handle is open.
IndicatorIsTruthful ==
  (cycle >= 1 /\ ~cleanedUp[cycle] /\ wsConnected) =>
    /\ activeHandle[cycle] # "null"
    /\ handles[<<cycle, activeHandle[cycle]>>].readyState = "open"
====
